---- MODULE Spec2Model ----
(***************************************************************************)
(* The deduplicating, reference-counted file vault of                      *)
(* app/backend/internal/files/service.go over the catalog statements of    *)
(* app/backend/internal/db/files.go and the schema of                      *)
(* app/backend/migrations/0001_init.sql.                                   *)
(*                                                                         *)
(* Up to NumProcs requests (Service.Upload, Service.DeleteFile) run at a    *)
(* time, one goroutine each.  A request is a sequence of steps; one step   *)
(* is one SQL statement or one object-storage call, together with the      *)
(* local computation that leads to the next one.  Steps of different       *)
(* requests interleave freely.                                             *)
(*                                                                         *)
(* Spec and SpecSeq run Upload and DeleteFile, concurrently and one at a   *)
(* time.  SpecShare adds ShareFile, RevokeShare, ListPublicFiles, the two  *)
(* downloads, StorageStats and the clock; SpecStats adds StorageStats to   *)
(* uploads of several payloads; SpecFault adds calls that return an        *)
(* error, and SpecInsertFault a failing insert of the File row.            *)
(* SpecPublic runs the public download by file id, SpecCeiling the upload  *)
(* ceilings NewService can be given, SpecStatsRace StorageStats next to    *)
(* concurrent uploads and deletes.  SpecMime applies resolveContentType    *)
(* to every combination of its arguments and SpecLimiter runs the          *)
(* rateLimiter of the HTTP server.  The statements on shares are those of  *)
(* files.go, over the shares table with the file_id column they name.      *)
(***************************************************************************)
EXTENDS Integers, Sequences, FiniteSets, TLC

\* ------------------------------------------------------------------ bounds
NumProcs == 2   \* concurrent requests
MaxFiles == 3   \* rows the files table may hold
MaxBatch == 2   \* inputs of one Upload call
MaxTime == 2    \* ticks of the clock
MaxShared == 2  \* rows of files in the runs with shares
MaxDownloads == 1   \* downloads counted per file
MaxCeiling == 3     \* largest upload ceiling configured
MaxClock == 3       \* seconds on the clock of the rate limiter

Procs == 1 .. NumProcs

\* ------------------------------------------------------- configuration
\* MAX_UPLOAD_BYTES, scaled to the payload sizes of the model.
maxUploadBytes == 2

\* users.id of the two owners and their users.quota_bytes (<= 0: unlimited).
Owners == {"A", "B"}
QuotaBytes(o) == IF o = "A" THEN 3 ELSE 0

\* ------------------------------------------------------------ payloads
\* The byte payloads a client can send, and len(data) of each.  Payload c4
\* is as long as c1; it is sent in the runs with StorageStats only.
Contents == {"c1", "c2", "c3"}
DataLen(c) == CASE c = "c1" -> 1 [] c = "c2" -> 2 [] c = "c4" -> 1 [] OTHER -> 3

\* hex.EncodeToString(sha256.Sum256(data)): a fixed digest per payload,
\* distinct payloads having distinct digests.  Digests are sequences of hex
\* digits (shortened); c1 and c2 share their first four digits.
Sha256Hex(c) ==
    CASE c = "c1" -> <<"a", "1", "f", "0", "7">>
      [] c = "c2" -> <<"a", "1", "f", "0", "9">>
      [] c = "c4" -> <<"a", "1", "d", "4", "4">>
      [] OTHER    -> <<"3", "b", "2", "c", "e">>

\* -------------------------------------------------------------- state
VARIABLES
    file_blobs,     \* table file_blobs: id -> row
    files,          \* table files: id -> row
    shares,         \* table shares: its rows
    store,          \* object storage bucket: the keys that hold bytes
    now,            \* now() of the database server
    pc,             \* per request goroutine: the statement it is about to run
    req,            \* its request (the arguments of the call)
    idx,            \* Upload: index of the input being processed
    originalUsage,  \* Upload: running usage of the owner
    blob,           \* Upload: local variable blob
    isNew,          \* Upload: local variable isNew
    results,        \* Upload: local variable results
    fileWithBlob,   \* DeleteFile: local variable fileWithBlob
    markedRow,      \* DeleteFile: the row MarkFileDeleted returned (discarded)
    ret,            \* what the last call of this goroutine returned
    s_maxUploadBytes,   \* Service.maxUploadBytes, set by NewService
    mimeIn,         \* resolveContentType: its arguments
    mimeOut,        \* resolveContentType: what it returned
    limiter,        \* the *rateLimiter newRateLimiter returned
    allowed,        \* what the last rateLimiter.Allow returned
    burst           \* per key: time of the latest calls of Allow and how
                    \* many of those made in a row at that time were allowed

db      == <<file_blobs, files, shares>>
locals  == <<idx, originalUsage, blob, isNew, results, fileWithBlob, markedRow>>
aux     == <<s_maxUploadBytes, mimeIn, mimeOut, limiter, allowed, burst>>
vars    == <<file_blobs, files, shares, store, now, pc, req, idx, originalUsage,
             blob, isNew, results, fileWithBlob, markedRow, ret, aux>>

\* ----------------------------------------------------------- helpers
\* (variant: a key that also depends on the catalog, here on the number of
\* Blob rows at the time of the call)
buildStorageKey_ByCatalog(hash) ==
    <<"sha256", SubSeq(hash, 1, 2), SubSeq(hash, 3, 4), hash,
      Cardinality(DOMAIN file_blobs)>>

\* buildStorageKey: "sha256/<hash[:2]>/<hash[2:4]>/<hash>", and
\* "sha256/<hash>" for a hash shorter than four digits.
buildStorageKey(hash) ==
    IF Len(hash) < 4
    THEN <<"sha256", hash>>
    ELSE <<"sha256", SubSeq(hash, 1, 2), SubSeq(hash, 3, 4), hash>>

NoBlob   == [id |-> 0, ref_count |-> 0]
NoFWB    == [file |-> 0, blob |-> 0, storage_key |-> <<>>]
NoReq    == [op |-> "none"]
NoMime   == [contentType |-> "", declared |-> <<>>, detected |-> ""]
NoLimiter == [nil |-> TRUE, rate |-> 0, capacity |-> 0, buckets |-> <<>>]
NoBurst  == <<>>
NoRet    == [kind |-> "none", err |-> "", detail |-> <<>>, results |-> <<>>,
             file |-> 0, share |-> <<>>, list |-> {}, data |-> <<>>,
             usage |-> <<>>]

RECURSIVE SumSizes(_)
SumSizes(S) ==
    IF S = {} THEN 0
    ELSE LET f == CHOOSE x \in S : TRUE
         IN  files[f].size_bytes_original + SumSizes(S \ {f})

\* Rows of files that are not soft-deleted.
LiveFiles == {f \in DOMAIN files : ~files[f].is_deleted}

\* First query of StorageUsage:
\*   select coalesce(sum(size_bytes_original), 0) from files
\*   where owner_id = $1 and is_deleted = false
StorageUsageOriginal(o) ==
    SumSizes({f \in LiveFiles : files[f].owner_id = o})

\* GetBlobByHash: the id of the row with this sha256, 0 when there is none.
GetBlobByHash(hash) ==
    IF \E b \in DOMAIN file_blobs : file_blobs[b].sha256 = hash
    THEN LET b == CHOOSE b \in DOMAIN file_blobs : file_blobs[b].sha256 = hash
         IN  [id |-> b, ref_count |-> file_blobs[b].ref_count]
    ELSE NoBlob

\* gen_random_uuid() of a new row: ids are handed out in order of insertion.
NewId(table) == IF DOMAIN table = {} THEN 1
                ELSE 1 + CHOOSE m \in DOMAIN table : \A k \in DOMAIN table : k <= m

\* The input the Upload loop is at, its digest and its size.
Input(p) == req[p].inputs[idx[p]]
Hash(p)  == Sha256Hex(Input(p))
Size(p)  == DataLen(Input(p))

\* Inputs of running Upload calls that have not produced their File row yet.
Pending(p) == IF req[p].op = "upload" THEN Len(req[p].inputs) - idx[p] + 1 ELSE 0
RECURSIVE SumPending(_)
SumPending(S) ==
    IF S = {} THEN 0
    ELSE LET p == CHOOSE x \in S : TRUE IN Pending(p) + SumPending(S \ {p})

Batches == UNION {[1 .. n -> Contents] : n \in 1 .. MaxBatch}

\* A call returns: its locals are gone and its caller holds the returned
\* value.
Return(p, r) ==
    /\ pc' = [pc EXCEPT ![p] = "returned"]
    /\ req' = [req EXCEPT ![p] = NoReq]
    /\ idx' = [idx EXCEPT ![p] = 0]
    /\ originalUsage' = [originalUsage EXCEPT ![p] = 0]
    /\ blob' = [blob EXCEPT ![p] = NoBlob]
    /\ isNew' = [isNew EXCEPT ![p] = FALSE]
    /\ results' = [results EXCEPT ![p] = <<>>]
    /\ fileWithBlob' = [fileWithBlob EXCEPT ![p] = NoFWB]
    /\ markedRow' = [markedRow EXCEPT ![p] = 0]
    /\ ret' = [ret EXCEPT ![p] = r]

\* return nil, err  /  return results, nil  /  return nil, nil  /
\* return &fileWithBlob.File, nil.  The detail of a unique violation is the
\* key Postgres names in it ("Key (sha256)=(...) already exists").
RetErr(e)        == [NoRet EXCEPT !.kind = "error", !.err = e]
RetConflict(key) == [NoRet EXCEPT !.kind = "error", !.err = "unique violation",
                                  !.detail = key]
RetOk(rs)        == [NoRet EXCEPT !.kind = "ok", !.results = rs]
RetAbsent        == [NoRet EXCEPT !.kind = "absent"]
RetFile(f)       == [NoRet EXCEPT !.kind = "ok", !.file = f]

\* ---------------------------------------------------------------- Init
\* The catalog and the bucket are empty and no request is running.
InitVault ==
    /\ file_blobs = <<>>
    /\ files = <<>>
    /\ shares = {}
    /\ store = {}
    /\ now = 0
    /\ pc = [p \in Procs |-> "idle"]
    /\ req = [p \in Procs |-> NoReq]
    /\ idx = [p \in Procs |-> 0]
    /\ originalUsage = [p \in Procs |-> 0]
    /\ blob = [p \in Procs |-> NoBlob]
    /\ isNew = [p \in Procs |-> FALSE]
    /\ results = [p \in Procs |-> <<>>]
    /\ fileWithBlob = [p \in Procs |-> NoFWB]
    /\ markedRow = [p \in Procs |-> 0]
    /\ ret = [p \in Procs |-> NoRet]

\* resolveContentType has not been called; no rate limiter is in use.
InitMime == mimeIn = NoMime /\ mimeOut = <<>>
InitNoLimiter == limiter = NoLimiter /\ allowed = <<>> /\ burst = NoBurst

\* NewService(repo, storage, cfg.MaxUploadBytes)
Init ==
    /\ InitVault
    /\ s_maxUploadBytes = maxUploadBytes
    /\ InitMime
    /\ InitNoLimiter

\* The upload ceilings a deployment can configure (MAX_UPLOAD_BYTES), zero
\* and a negative one among them.
Ceilings == -1 .. MaxCeiling

\* NewService with any of the ceilings.
InitCeiling ==
    /\ InitVault
    /\ s_maxUploadBytes \in Ceilings
    /\ InitMime
    /\ InitNoLimiter

\* ------------------------------------------------------ Service.Upload
\* The handler calls Upload(ctx, owner, inputs); the first statement is
\*   originalUsage, _, err := s.repo.StorageUsage(ctx, owner.ID)
\* (the deduplicated total of the second query is discarded).
UploadStorageUsage(p, o, ins) ==
    /\ pc[p] = "idle"
    /\ Cardinality(DOMAIN files) + SumPending(Procs) + Len(ins) <= MaxFiles
    /\ req' = [req EXCEPT ![p] = [op |-> "upload", owner |-> o, inputs |-> ins]]
    /\ idx' = [idx EXCEPT ![p] = 1]
    /\ originalUsage' = [originalUsage EXCEPT ![p] = StorageUsageOriginal(o)]
    /\ pc' = [pc EXCEPT ![p] = "GetBlobByHash"]
    /\ UNCHANGED <<db, store, now, aux, blob, isNew, results, fileWithBlob, markedRow, ret>>

\* The two checks at the head of the loop body.
\* (variant of the ceiling check with >= for >)
ExceedsMaxUpload_Inclusive(size) == s_maxUploadBytes > 0 /\ size >= s_maxUploadBytes
\* s.maxUploadBytes > 0 && size > s.maxUploadBytes
ExceedsMaxUpload(size) == s_maxUploadBytes > 0 /\ size > s_maxUploadBytes
\* (variant of the quota check that leaves the owner's usage out)
QuotaExceeded_SizeOnly(quota, usage, size) == quota > 0 /\ size > quota
\* (variant of the quota check with >= for >)
QuotaExceeded_Inclusive(quota, usage, size) == quota > 0 /\ usage + size >= quota
\* owner.QuotaBytes > 0 && originalUsage+size > owner.QuotaBytes
QuotaExceeded(quota, usage, size) == quota > 0 /\ usage + size > quota

\* (variant: the quota check made against the owner's usage as it is in
\* the catalog at the time of the check)
UploadGetBlobByHash_FreshUsage(p) ==
    /\ pc[p] = "GetBlobByHash"
    /\ IF ExceedsMaxUpload(Size(p))
       THEN /\ Return(p, RetErr("exceeds max upload size"))
            /\ UNCHANGED <<db, store, now, aux>>
       ELSE IF QuotaExceeded(QuotaBytes(req[p].owner),
                             StorageUsageOriginal(req[p].owner), Size(p))
       THEN /\ Return(p, RetErr("storage quota exceeded"))
            /\ UNCHANGED <<db, store, now, aux>>
       ELSE /\ blob' = [blob EXCEPT ![p] = GetBlobByHash(Hash(p))]
            /\ isNew' = [isNew EXCEPT ![p] = FALSE]
            /\ pc' = [pc EXCEPT ![p] =
                        IF GetBlobByHash(Hash(p)) = NoBlob
                        THEN "storage.Upload" ELSE "IncrementBlobRef"]
            /\ UNCHANGED <<db, store, now, aux, req, idx, originalUsage, results,
                           fileWithBlob, markedRow, ret>>

\* (variant: the bytes written to the bucket whether or not the lookup
\* found a row of the digest)
UploadGetBlobByHash_AlwaysWrite(p) ==
    /\ pc[p] = "GetBlobByHash"
    /\ IF ExceedsMaxUpload(Size(p))
       THEN /\ Return(p, RetErr("exceeds max upload size"))
            /\ UNCHANGED <<db, store, now, aux>>
       ELSE IF QuotaExceeded(QuotaBytes(req[p].owner), originalUsage[p], Size(p))
       THEN /\ Return(p, RetErr("storage quota exceeded"))
            /\ UNCHANGED <<db, store, now, aux>>
       ELSE /\ blob' = [blob EXCEPT ![p] = GetBlobByHash(Hash(p))]
            /\ isNew' = [isNew EXCEPT ![p] = FALSE]
            /\ pc' = [pc EXCEPT ![p] = "storage.Upload"]
            /\ UNCHANGED <<db, store, now, aux, req, idx, originalUsage, results,
                           fileWithBlob, markedRow, ret>>

\* Head of the loop body up to the lookup: readAndHash, the upload ceiling,
\* the quota check, GetBlobByHash and the choice of the branch.
UploadGetBlobByHash(p) ==
    /\ pc[p] = "GetBlobByHash"
    /\ IF ExceedsMaxUpload(Size(p))
       THEN /\ Return(p, RetErr("exceeds max upload size"))
            /\ UNCHANGED <<db, store, now, aux>>
       ELSE IF QuotaExceeded(QuotaBytes(req[p].owner), originalUsage[p], Size(p))
       THEN /\ Return(p, RetErr("storage quota exceeded"))
            /\ UNCHANGED <<db, store, now, aux>>
       ELSE /\ blob' = [blob EXCEPT ![p] = GetBlobByHash(Hash(p))]
            /\ isNew' = [isNew EXCEPT ![p] = FALSE]
            /\ pc' = [pc EXCEPT ![p] =
                        IF GetBlobByHash(Hash(p)) = NoBlob
                        THEN "storage.Upload" ELSE "IncrementBlobRef"]
            /\ UNCHANGED <<db, store, now, aux, req, idx, originalUsage, results,
                           fileWithBlob, markedRow, ret>>

\* s.storage.Upload(ctx, storageKey, data, detectedMIME), an upsert of the
\* object at the key.
UploadStorageUpload(p) ==
    /\ pc[p] = "storage.Upload"
    /\ store' = store \cup {buildStorageKey(Hash(p))}
    /\ pc' = [pc EXCEPT ![p] = "InsertBlob"]
    /\ UNCHANGED <<db, now, aux, req, locals, ret>>

\* (variant: a schema without the unique constraint on sha256)
InsertBlobConflict_NoUnique(hash) == FALSE

\* insert into file_blobs (sha256, ..., ref_count) values (..., 1):
\* the unique constraint on sha256 rejects a second row of the digest.
InsertBlobConflict(hash) == \E b \in DOMAIN file_blobs : file_blobs[b].sha256 = hash

InsertBlobRow(hash, size) ==
    [sha256 |-> hash, size_bytes |-> size,
     storage_key |-> buildStorageKey(hash), ref_count |-> 1]

\* blob, err = s.repo.InsertBlob(...); an error is returned to the caller.
UploadInsertBlob(p) ==
    /\ pc[p] = "InsertBlob"
    /\ IF InsertBlobConflict(Hash(p))
       THEN /\ Return(p, RetConflict(Hash(p)))
            /\ UNCHANGED <<db, store, now, aux>>
       ELSE /\ file_blobs' = file_blobs @@
                    (NewId(file_blobs) :> InsertBlobRow(Hash(p), Size(p)))
            /\ blob' = [blob EXCEPT ![p] = [id |-> NewId(file_blobs), ref_count |-> 1]]
            /\ isNew' = [isNew EXCEPT ![p] = TRUE]
            /\ pc' = [pc EXCEPT ![p] = "InsertFile"]
            /\ UNCHANGED <<files, shares, store, now, aux, req, idx, originalUsage,
                           results, fileWithBlob, markedRow, ret>>

\* (variant: an update whose where clause matches no row)
IncrementBlobRef_NoMatch(blobID) == file_blobs

\* update file_blobs set ref_count = ref_count + 1 where id = $1
IncrementBlobRef(blobID) ==
    [b \in DOMAIN file_blobs |->
        IF b = blobID
        THEN [file_blobs[b] EXCEPT !.ref_count = @ + 1]
        ELSE file_blobs[b]]

\* (variant: the increment as read-modify-write in the application, the
\* count read by GetBlobByHash plus one being written back)
UploadIncrementBlobRef_ReadModifyWrite(p) ==
    /\ pc[p] = "IncrementBlobRef"
    /\ file_blobs' = [b \in DOMAIN file_blobs |->
                        IF b = blob[p].id
                        THEN [file_blobs[b] EXCEPT !.ref_count = blob[p].ref_count + 1]
                        ELSE file_blobs[b]]
    /\ blob' = [blob EXCEPT ![p].ref_count = @ + 1]
    /\ pc' = [pc EXCEPT ![p] = "InsertFile"]
    /\ UNCHANGED <<files, shares, store, now, aux, req, idx, originalUsage, isNew,
                   results, fileWithBlob, markedRow, ret>>

\* s.repo.IncrementBlobRef(ctx, blob.ID); blob.RefCount++
UploadIncrementBlobRef(p) ==
    /\ pc[p] = "IncrementBlobRef"
    /\ file_blobs' = IncrementBlobRef(blob[p].id)
    /\ blob' = [blob EXCEPT ![p].ref_count = @ + 1]
    /\ pc' = [pc EXCEPT ![p] = "InsertFile"]
    /\ UNCHANGED <<files, shares, store, now, aux, req, idx, originalUsage, isNew,
                   results, fileWithBlob, markedRow, ret>>

\* The row InsertFile writes; files.blob_id references file_blobs(id).
InsertFileRow(p) ==
    [owner_id |-> req[p].owner, blob_id |-> blob[p].id,
     size_bytes_original |-> Size(p), is_deleted |-> FALSE,
     download_count |-> 0]

\* (variant: the running usage advanced for new content only, an item that
\* was deduplicated not counting)
UploadInsertFile_NewOnly(p) ==
    /\ pc[p] = "InsertFile"
    /\ IF blob[p].id \notin DOMAIN file_blobs
       THEN /\ Return(p, RetErr("files.blob_id has no file_blobs row"))
            /\ UNCHANGED <<db, store, now, aux>>
       ELSE LET id == NewId(files)
                rs == Append(results[p],
                             [file |-> id, blob |-> blob[p].id,
                              ref_count |-> blob[p].ref_count, isNew |-> isNew[p]])
            IN  /\ files' = files @@ (id :> InsertFileRow(p))
                /\ UNCHANGED <<file_blobs, shares, store, now, aux>>
                /\ IF idx[p] = Len(req[p].inputs)
                   THEN Return(p, RetOk(rs))
                   ELSE /\ results' = [results EXCEPT ![p] = rs]
                        /\ originalUsage' = [originalUsage EXCEPT ![p] =
                                                IF isNew[p] THEN @ + Size(p) ELSE @]
                        /\ idx' = [idx EXCEPT ![p] = @ + 1]
                        /\ pc' = [pc EXCEPT ![p] = "GetBlobByHash"]
                        /\ UNCHANGED <<req, blob, isNew, fileWithBlob, markedRow, ret>>

\* s.repo.InsertFile(ctx, record), then results = append(...),
\* originalUsage += size and the next turn of the loop (or return results).
UploadInsertFile(p) ==
    /\ pc[p] = "InsertFile"
    /\ IF blob[p].id \notin DOMAIN file_blobs
       THEN /\ Return(p, RetErr("files.blob_id has no file_blobs row"))
            /\ UNCHANGED <<db, store, now, aux>>
       ELSE LET id == NewId(files)
                rs == Append(results[p],
                             [file |-> id, blob |-> blob[p].id,
                              ref_count |-> blob[p].ref_count, isNew |-> isNew[p]])
            IN  /\ files' = files @@ (id :> InsertFileRow(p))
                /\ UNCHANGED <<file_blobs, shares, store, now, aux>>
                /\ IF idx[p] = Len(req[p].inputs)
                   THEN Return(p, RetOk(rs))
                   ELSE /\ results' = [results EXCEPT ![p] = rs]
                        /\ originalUsage' = [originalUsage EXCEPT ![p] = @ + Size(p)]
                        /\ idx' = [idx EXCEPT ![p] = @ + 1]
                        /\ pc' = [pc EXCEPT ![p] = "GetBlobByHash"]
                        /\ UNCHANGED <<req, blob, isNew, fileWithBlob, markedRow, ret>>

Upload(p) ==
    \/ \E o \in Owners, ins \in Batches : UploadStorageUsage(p, o, ins)
    \/ UploadGetBlobByHash(p)
    \/ UploadStorageUpload(p)
    \/ UploadInsertBlob(p)
    \/ UploadIncrementBlobRef(p)
    \/ UploadInsertFile(p)

\* -------------------------------------------------- Service.DeleteFile
\* (variant: the query without the condition on is_deleted)
GetFileWithBlob_IncludeDeleted(fileID, ownerID) ==
    IF /\ fileID \in DOMAIN files
       /\ files[fileID].owner_id = ownerID
       /\ files[fileID].blob_id \in DOMAIN file_blobs
    THEN [file |-> fileID, blob |-> files[fileID].blob_id,
          storage_key |-> file_blobs[files[fileID].blob_id].storage_key]
    ELSE NoFWB

\* (variant: the query without the condition on owner_id)
GetFileWithBlob_AnyOwner(fileID, ownerID) ==
    IF /\ fileID \in DOMAIN files
       /\ ~files[fileID].is_deleted
       /\ files[fileID].blob_id \in DOMAIN file_blobs
    THEN [file |-> fileID, blob |-> files[fileID].blob_id,
          storage_key |-> file_blobs[files[fileID].blob_id].storage_key]
    ELSE NoFWB

\* GetFileWithBlob: files join file_blobs
\*   where f.id = $1 and f.owner_id = $2 and f.is_deleted = false
GetFileWithBlob(fileID, ownerID) ==
    IF /\ fileID \in DOMAIN files
       /\ files[fileID].owner_id = ownerID
       /\ ~files[fileID].is_deleted
       /\ files[fileID].blob_id \in DOMAIN file_blobs
    THEN [file |-> fileID, blob |-> files[fileID].blob_id,
          storage_key |-> file_blobs[files[fileID].blob_id].storage_key]
    ELSE NoFWB

\* The handler calls DeleteFile(ctx, fileID, ownerID); the first statement
\* is  fileWithBlob, err := GetFileWithBlob(...), and nil is "return nil, nil".
DeleteGetFileWithBlob(p, o, f) ==
    /\ pc[p] = "idle"
    /\ IF GetFileWithBlob(f, o) = NoFWB
       THEN /\ Return(p, RetAbsent)
            /\ UNCHANGED <<db, store, now, aux>>
       ELSE /\ req' = [req EXCEPT ![p] = [op |-> "delete", owner |-> o, fileID |-> f]]
            /\ fileWithBlob' = [fileWithBlob EXCEPT ![p] = GetFileWithBlob(f, o)]
            /\ pc' = [pc EXCEPT ![p] = "MarkFileDeleted"]
            /\ UNCHANGED <<db, store, now, aux, idx, originalUsage, blob, isNew,
                           results, markedRow, ret>>

\* update files set is_deleted = true
\*   where id = $1 and owner_id = $2 and is_deleted = false  returning ...
MarkFileDeletedMatches(fileID, ownerID) ==
    /\ fileID \in DOMAIN files
    /\ files[fileID].owner_id = ownerID
    /\ ~files[fileID].is_deleted

\* _, err := MarkFileDeleted(...): no matching row is (nil, nil), and
\* DeleteFile goes on either way.
DeleteMarkFileDeleted(p) ==
    /\ pc[p] = "MarkFileDeleted"
    /\ IF MarkFileDeletedMatches(req[p].fileID, req[p].owner)
       THEN /\ files' = [files EXCEPT ![req[p].fileID].is_deleted = TRUE]
            /\ markedRow' = [markedRow EXCEPT ![p] = req[p].fileID]
       ELSE /\ files' = files
            /\ markedRow' = [markedRow EXCEPT ![p] = 0]
    /\ pc' = [pc EXCEPT ![p] = "DecrementBlobRef"]
    /\ UNCHANGED <<file_blobs, shares, store, now, aux, req, idx, originalUsage, blob,
                   isNew, results, fileWithBlob, ret>>

\* (variant: the count written as zero instead of lowered by one)
DecrementBlobRef_Reset(blobID) ==
    [b \in DOMAIN file_blobs |->
        IF b = blobID
        THEN [file_blobs[b] EXCEPT !.ref_count = 0]
        ELSE file_blobs[b]]

\* update file_blobs set ref_count = ref_count - 1 where id = $1
\*   returning ref_count
DecrementBlobRef(blobID) ==
    [b \in DOMAIN file_blobs |->
        IF b = blobID
        THEN [file_blobs[b] EXCEPT !.ref_count = @ - 1]
        ELSE file_blobs[b]]

\* refCount, err := DecrementBlobRef(ctx, fileWithBlob.Blob.ID); no row is
\* pgx.ErrNoRows.  Then the branch on refCount <= 0.
DeleteDecrementBlobRef(p) ==
    /\ pc[p] = "DecrementBlobRef"
    /\ IF fileWithBlob[p].blob \notin DOMAIN file_blobs
       THEN /\ Return(p, RetErr("no rows in result set"))
            /\ UNCHANGED <<db, store, now, aux>>
       ELSE /\ file_blobs' = DecrementBlobRef(fileWithBlob[p].blob)
            /\ pc' = [pc EXCEPT ![p] =
                        IF file_blobs'[fileWithBlob[p].blob].ref_count <= 0
                        THEN "DeleteBlob" ELSE "DeleteShare"]
            /\ UNCHANGED <<files, shares, store, now, aux, req, locals, ret>>

\* (variant: files.blob_id without its foreign key, so that no row of files
\* ever holds a file_blobs row back)
BlobReferenced_NoForeignKey(blobID) == FALSE

\* files.blob_id references file_blobs(id) with no ON DELETE action: a row
\* of file_blobs that any row of files (soft-deleted or not) points at
\* cannot be deleted.
BlobReferenced(blobID) == \E f \in DOMAIN files : files[f].blob_id = blobID

\* delete from file_blobs where id = $1
DeleteBlob(blobID) == [b \in DOMAIN file_blobs \ {blobID} |-> file_blobs[b]]

\* (variant: the two statements of the purge in the other order, the
\* bytes deleted before the row)
DeleteDeleteBlob_BytesFirst(p) ==
    /\ pc[p] = "DeleteBlob"
    /\ store' = store \ {fileWithBlob[p].storage_key}
    /\ IF BlobReferenced(fileWithBlob[p].blob)
       THEN /\ Return(p, RetErr("file_blobs row is still referenced"))
            /\ UNCHANGED <<db, now, aux>>
       ELSE /\ file_blobs' = DeleteBlob(fileWithBlob[p].blob)
            /\ pc' = [pc EXCEPT ![p] = "DeleteShare"]
            /\ UNCHANGED <<files, shares, now, aux, req, locals, ret>>

\* if err := DeleteBlob(...); err != nil { return nil, err }
\* if err := s.storage.Delete(ctx, storageKey); ...
DeleteDeleteBlob(p) ==
    /\ pc[p] = "DeleteBlob"
    /\ IF BlobReferenced(fileWithBlob[p].blob)
       THEN /\ Return(p, RetErr("file_blobs row is still referenced"))
            /\ UNCHANGED <<db, store, now, aux>>
       ELSE /\ file_blobs' = DeleteBlob(fileWithBlob[p].blob)
            /\ store' = store \ {fileWithBlob[p].storage_key}
            /\ pc' = [pc EXCEPT ![p] = "DeleteShare"]
            /\ UNCHANGED <<files, shares, now, aux, req, locals, ret>>

\* delete from shares where file_id = $1
DeleteShare(fileID) == {s \in shares : s.file_id # fileID}

\* _ = s.repo.DeleteShare(ctx, fileID); return &fileWithBlob.File, nil
DeleteDeleteShare(p) ==
    /\ pc[p] = "DeleteShare"
    /\ shares' = DeleteShare(req[p].fileID)
    /\ Return(p, RetFile(fileWithBlob[p].file))
    /\ UNCHANGED <<file_blobs, files, store, now, aux>>

DeleteFile(p) ==
    \/ \E o \in Owners, f \in 1 .. MaxFiles : DeleteGetFileWithBlob(p, o, f)
    \/ DeleteMarkFileDeleted(p)
    \/ DeleteDecrementBlobRef(p)
    \/ DeleteDeleteBlob(p)
    \/ DeleteDeleteShare(p)

\* ------------------------------------------------------------- shares
\* ShareVisibility of the GraphQL schema, as the resolvers pass it on.
Visibilities == {"PUBLIC", "PRIVATE"}
\* token *string: nil, the empty string, or a token.
Tokens == {<<>>, <<"">>, <<"t1">>, <<"t2">>}
\* expires *time.Time: nil or an instant.
Expiries == {<<>>} \cup {<<t>> : t \in 1 .. MaxTime - 1}

\* A row of shares (its own id left out).
ShareRow(fileID, visibility, token, expires) ==
    [file_id |-> fileID, visibility |-> visibility, token |-> token,
     expires_at |-> expires]

\* (s.expires_at is null or s.expires_at > now())
NotExpired(s) == s.expires_at = <<>> \/ s.expires_at[1] > now

\* shares.file_id references files(id).
ShareFileMissing(fileID) == fileID \notin DOMAIN files

\* shares.token is unique: another row holds this (non-null) token.
ShareTokenTaken(fileID, token) ==
    /\ token # <<>>
    /\ \E s \in shares : s.file_id # fileID /\ s.token = token

\* (variant: a plain insert, without the conflict clause and its index)
UpsertShare_PlainInsert(fileID, visibility, token, expires) ==
    shares \cup {ShareRow(fileID, visibility, token, expires)}

\* insert into shares (file_id, visibility, token, expires_at) values (...)
\*   on conflict (file_id) do update set visibility = excluded.visibility,
\*     token = excluded.token, expires_at = excluded.expires_at
UpsertShare(fileID, visibility, token, expires) ==
    {s \in shares : s.file_id # fileID}
        \cup {ShareRow(fileID, visibility, token, expires)}

RetShare(row) == [NoRet EXCEPT !.kind = "ok", !.share = <<row>>]
RetNil        == [NoRet EXCEPT !.kind = "ok"]

\* Service.ShareFile: return s.repo.UpsertShare(...)
ShareFile(p, fileID, visibility, token, expires) ==
    /\ pc[p] = "idle"
    /\ IF ShareFileMissing(fileID)
       THEN /\ shares' = shares
            /\ Return(p, RetErr("shares.file_id has no files row"))
       ELSE IF ShareTokenTaken(fileID, token)
       THEN /\ shares' = shares
            /\ Return(p, RetErr("duplicate share token"))
       ELSE /\ shares' = UpsertShare(fileID, visibility, token, expires)
            /\ Return(p, RetShare(ShareRow(fileID, visibility, token, expires)))
    /\ UNCHANGED <<file_blobs, files, store, now, aux>>

\* Service.RevokeShare: return s.repo.DeleteShare(ctx, fileID)
RevokeShare(p, fileID) ==
    /\ pc[p] = "idle"
    /\ shares' = DeleteShare(fileID)
    /\ Return(p, RetNil)
    /\ UNCHANGED <<file_blobs, files, store, now, aux>>

\* (variant: the listing without the condition on the visibility)
ListPublicFiles_AnyVisibility ==
    {s.file_id : s \in
        {s \in shares :
            /\ s.file_id \in DOMAIN files
            /\ files[s.file_id].blob_id \in DOMAIN file_blobs
            /\ ~files[s.file_id].is_deleted
            /\ NotExpired(s)
            /\ (s.token # <<>> /\ s.token # <<"">>)}}

\* ListPublicFiles with a nil filter: the files of the rows of
\*   shares s join files f on s.file_id = f.id join file_blobs b ...
\*   where f.is_deleted = false and s.visibility = 'PUBLIC'
\*     and (s.expires_at is null or s.expires_at > now())
\*     and (s.token is not null and s.token <> '')
ListPublicFiles ==
    {s.file_id : s \in
        {s \in shares :
            /\ s.file_id \in DOMAIN files
            /\ files[s.file_id].blob_id \in DOMAIN file_blobs
            /\ ~files[s.file_id].is_deleted
            /\ s.visibility = "PUBLIC"
            /\ NotExpired(s)
            /\ (s.token # <<>> /\ s.token # <<"">>)}}

RetList(l) == [NoRet EXCEPT !.kind = "list", !.list = l]

\* Service.ListPublicFiles: return s.repo.ListPublicFiles(ctx, filter)
ServiceListPublicFiles(p) ==
    /\ pc[p] = "idle"
    /\ Return(p, RetList(ListPublicFiles))
    /\ UNCHANGED <<db, store, now, aux>>

\* (variant: the lookup without the condition on the expiry)
ShareTokenRows_NoExpiry(token) ==
    {s \in shares :
        /\ s.token = <<token>>
        /\ s.file_id \in DOMAIN files
        /\ files[s.file_id].blob_id \in DOMAIN file_blobs
        /\ ~files[s.file_id].is_deleted}

\* (variant: the lookup restricted to shares of visibility PUBLIC)
ShareTokenRows_PublicOnly(token) ==
    {s \in shares :
        /\ s.token = <<token>>
        /\ s.visibility = "PUBLIC"
        /\ NotExpired(s)
        /\ s.file_id \in DOMAIN files
        /\ files[s.file_id].blob_id \in DOMAIN file_blobs
        /\ ~files[s.file_id].is_deleted}

\* The rows GetFileByShareToken selects:
\*   shares s join files f on s.file_id = f.id join file_blobs b ...
\*   where s.token = $1 and (s.expires_at is null or s.expires_at > now())
\*     and f.is_deleted = false
ShareTokenRows(token) ==
    {s \in shares :
        /\ s.token = <<token>>
        /\ NotExpired(s)
        /\ s.file_id \in DOMAIN files
        /\ files[s.file_id].blob_id \in DOMAIN file_blobs
        /\ ~files[s.file_id].is_deleted}

\* GetFileByShareToken: the file and blob of the first row, or
\* pgx.ErrNoRows (NoFWB here).
GetFileByShareToken(token) ==
    IF ShareTokenRows(token) = {} THEN NoFWB
    ELSE LET s == CHOOSE s \in ShareTokenRows(token) : TRUE
             f == s.file_id
         IN  [file |-> f, blob |-> files[f].blob_id,
              storage_key |-> file_blobs[files[f].blob_id].storage_key]

\* ErrNotFound
RetNotFound == RetErr("file not found")
RetDownloaded(fwb) ==
    [NoRet EXCEPT !.kind = "ok", !.file = fwb.file, !.data = fwb.storage_key]

\* The handler calls DownloadSharedFile(ctx, token); the first statement is
\* GetFileByShareToken, and no row (or a nil record) is ErrNotFound.
DownloadGetFileByShareToken(p, token) ==
    /\ pc[p] = "idle"
    /\ IF GetFileByShareToken(token) = NoFWB
       THEN Return(p, RetNotFound)
       ELSE /\ files[GetFileByShareToken(token).file].download_count < MaxDownloads
            /\ req' = [req EXCEPT ![p] = [op |-> "downloadShared", token |-> token]]
            /\ fileWithBlob' = [fileWithBlob EXCEPT ![p] = GetFileByShareToken(token)]
            /\ pc' = [pc EXCEPT ![p] = "storage.Download"]
            /\ UNCHANGED <<idx, originalUsage, blob, isNew, results, markedRow, ret>>
    /\ UNCHANGED <<db, store, now, aux>>

\* data, contentType, err := s.storage.Download(ctx, blobRec.StorageKey)
DownloadStorageDownload(p) ==
    /\ pc[p] = "storage.Download"
    /\ IF fileWithBlob[p].storage_key \in store
       THEN /\ pc' = [pc EXCEPT ![p] = "IncrementDownload"]
            /\ UNCHANGED <<req, locals, ret>>
       ELSE Return(p, RetErr("supabase download failed"))
    /\ UNCHANGED <<db, store, now, aux>>

\* update files set download_count = download_count + 1 where id = $1
IncrementDownload(fileID) ==
    [f \in DOMAIN files |->
        IF f = fileID
        THEN [files[f] EXCEPT !.download_count = @ + 1]
        ELSE files[f]]

\* s.repo.IncrementDownload(ctx, fileRec.ID); return &DownloadedFile{...}
DownloadIncrementDownload(p) ==
    /\ pc[p] = "IncrementDownload"
    /\ files' = IncrementDownload(fileWithBlob[p].file)
    /\ Return(p, RetDownloaded(fileWithBlob[p]))
    /\ UNCHANGED <<file_blobs, shares, store, now, aux>>

DownloadSharedFile(p) ==
    \/ \E token \in {"t1", "t2"} : DownloadGetFileByShareToken(p, token)
    \/ DownloadStorageDownload(p)
    \/ DownloadIncrementDownload(p)

\* Time passes on the database server.
Tick ==
    /\ now < MaxTime
    /\ now' = now + 1
    /\ UNCHANGED <<db, store, aux, pc, req, locals, ret>>

\* -------------------------------------------------- Service.StorageStats
\* sum(distinct x) over a set of numbers.
RECURSIVE SumSet(_)
SumSet(S) ==
    IF S = {} THEN 0
    ELSE LET x == CHOOSE x \in S : TRUE IN x + SumSet(S \ {x})

\* Second query of StorageUsage:
\*   select coalesce(sum(distinct b.size_bytes), 0)
\*   from files f join file_blobs b on f.blob_id = b.id
\*   where f.owner_id = $1 and f.is_deleted = false
StorageUsageDedup(o) ==
    SumSet({file_blobs[files[f].blob_id].size_bytes :
               f \in {f \in LiveFiles :
                        /\ files[f].owner_id = o
                        /\ files[f].blob_id \in DOMAIN file_blobs}})

RetUsage(original, dedup) ==
    [NoRet EXCEPT !.kind = "usage", !.usage = <<original, dedup>>]

\* The handler calls StorageStats(ctx, ownerID), which is StorageUsage: the
\* first query.
StatsStorageUsageOriginal(p, o) ==
    /\ pc[p] = "idle"
    /\ req' = [req EXCEPT ![p] = [op |-> "stats", owner |-> o]]
    /\ originalUsage' = [originalUsage EXCEPT ![p] = StorageUsageOriginal(o)]
    /\ pc' = [pc EXCEPT ![p] = "StorageUsage.dedup"]
    /\ UNCHANGED <<db, store, now, aux, idx, blob, isNew, results, fileWithBlob,
                   markedRow, ret>>

\* The second query, and return original, dedup, nil.
StatsStorageUsageDedup(p) ==
    /\ pc[p] = "StorageUsage.dedup"
    /\ Return(p, RetUsage(originalUsage[p], StorageUsageDedup(req[p].owner)))
    /\ UNCHANGED <<db, store, now, aux>>

StorageStats(p) ==
    \/ \E o \in Owners : StatsStorageUsageOriginal(p, o)
    \/ StatsStorageUsageDedup(p)

\* ---------------------------------------------- Service.DownloadOwnedFile
\* The handler calls DownloadOwnedFile(ctx, fileID, ownerID); the first
\* statement is GetFileWithBlob, and a nil record is ErrNotFound.  The
\* statements that follow are those of DownloadSharedFile.
DownloadGetFileWithBlob(p, o, f) ==
    /\ pc[p] = "idle"
    /\ IF GetFileWithBlob(f, o) = NoFWB
       THEN Return(p, RetNotFound)
       ELSE /\ files[f].download_count < MaxDownloads
            /\ req' = [req EXCEPT ![p] =
                          [op |-> "downloadOwned", owner |-> o, fileID |-> f]]
            /\ fileWithBlob' = [fileWithBlob EXCEPT ![p] = GetFileWithBlob(f, o)]
            /\ pc' = [pc EXCEPT ![p] = "storage.Download"]
            /\ UNCHANGED <<idx, originalUsage, blob, isNew, results, markedRow, ret>>
    /\ UNCHANGED <<db, store, now, aux>>

DownloadOwnedFile(p) ==
    \/ \E o \in Owners, f \in 1 .. MaxShared : DownloadGetFileWithBlob(p, o, f)
    \/ DownloadStorageDownload(p)
    \/ DownloadIncrementDownload(p)

\* ------------------------------------------ handlePublicFileDownload
\* strings.ToUpper over the visibilities a client can send.
ToUpper(v) ==
    CASE v = "public"  -> "PUBLIC"
      [] v = "private" -> "PRIVATE"
      [] OTHER         -> v

\* GetShareByFileID: select ... from shares where file_id = $1; the row as
\* an option (<<>> for pgx.ErrNoRows, which is (nil, nil)).
GetShareByFileID(fileID) ==
    IF \E s \in shares : s.file_id = fileID
    THEN <<CHOOSE s \in shares : s.file_id = fileID>>
    ELSE <<>>

\* share == nil || strings.ToUpper(share.Visibility) != "PUBLIC" ||
\* share.Token == nil || *share.Token == ""
NoPublicShare(share) ==
    \/ share = <<>>
    \/ ToUpper(share[1].visibility) # "PUBLIC"
    \/ share[1].token = <<>>
    \/ share[1].token = <<"">>

\* (variant: the handler without the test of the visibility)
PublicGetShareByFileID_AnyVisibility(p, f) ==
    /\ pc[p] = "idle"
    /\ LET share == GetShareByFileID(f)
       IN  IF share = <<>> \/ share[1].token = <<>> \/ share[1].token = <<"">>
           THEN Return(p, RetNotFound)
           ELSE /\ req' = [req EXCEPT ![p] =
                             [op |-> "downloadPublic", fileID |-> f,
                              token |-> share[1].token[1]]]
                /\ pc' = [pc EXCEPT ![p] = "GetFileByShareToken"]
                /\ UNCHANGED <<locals, ret>>
    /\ UNCHANGED <<db, store, now, aux>>

\* GET /public/files/{fileID}/download: the share of the file is read and
\* tested, 404 when it is not a PUBLIC share with a token; otherwise the
\* handler calls DownloadSharedFile with the token of the row.
PublicGetShareByFileID(p, f) ==
    /\ pc[p] = "idle"
    /\ LET share == GetShareByFileID(f)
       IN  IF NoPublicShare(share)
           THEN Return(p, RetNotFound)
           ELSE /\ req' = [req EXCEPT ![p] =
                             [op |-> "downloadPublic", fileID |-> f,
                              token |-> share[1].token[1]]]
                /\ pc' = [pc EXCEPT ![p] = "GetFileByShareToken"]
                /\ UNCHANGED <<locals, ret>>
    /\ UNCHANGED <<db, store, now, aux>>

\* The first statement of the DownloadSharedFile the handler calls;
\* ErrNotFound is answered with 404.
PublicGetFileByShareToken(p) ==
    /\ pc[p] = "GetFileByShareToken"
    /\ IF GetFileByShareToken(req[p].token) = NoFWB
       THEN Return(p, RetNotFound)
       ELSE /\ files[GetFileByShareToken(req[p].token).file].download_count
                  < MaxDownloads
            /\ fileWithBlob' = [fileWithBlob EXCEPT ![p] =
                                   GetFileByShareToken(req[p].token)]
            /\ pc' = [pc EXCEPT ![p] = "storage.Download"]
            /\ UNCHANGED <<req, idx, originalUsage, blob, isNew, results,
                           markedRow, ret>>
    /\ UNCHANGED <<db, store, now, aux>>

handlePublicFileDownload(p) ==
    \/ \E f \in 1 .. MaxShared : PublicGetShareByFileID(p, f)
    \/ PublicGetFileByShareToken(p)
    \/ DownloadStorageDownload(p)
    \/ DownloadIncrementDownload(p)

\* ------------------------------------------------------- failing calls
\* (variant: the error of s.storage.Upload dropped, Upload going on to
\* InsertBlob)
UploadStorageUploadFails_Ignored(p) ==
    /\ pc[p] = "storage.Upload"
    /\ pc' = [pc EXCEPT ![p] = "InsertBlob"]
    /\ UNCHANGED <<db, store, now, aux, req, locals, ret>>

\* s.storage.Upload returns an error (the request to the bucket failed or
\* was answered with a status >= 400): Upload returns it.  Whether the
\* object was written by a request that failed is not known to the caller.
UploadStorageUploadFails(p) ==
    /\ pc[p] = "storage.Upload"
    /\ \E written \in BOOLEAN :
          store' = IF written THEN store \cup {buildStorageKey(Hash(p))} ELSE store
    /\ Return(p, RetErr("supabase upload failed"))
    /\ UNCHANGED <<db, now, aux>>

\* s.repo.DecrementBlobRef returns an error other than for a missing row
\* (the request context is cancelled, the connection is lost): DeleteFile
\* returns it, the update of files before it having been executed on its own.
DeleteDecrementBlobRefFails(p) ==
    /\ pc[p] = "DecrementBlobRef"
    /\ Return(p, RetErr("context canceled"))
    /\ UNCHANGED <<db, store, now, aux>>

\* s.repo.IncrementDownload returns an error (the request context is
\* cancelled, the connection is lost): the download returns it, the bytes
\* it fetched being dropped.
DownloadIncrementDownloadFails(p) ==
    /\ pc[p] = "IncrementDownload"
    /\ Return(p, RetErr("context canceled"))
    /\ UNCHANGED <<db, store, now, aux>>

\* s.repo.InsertFile returns an error (the request context is cancelled,
\* the connection is lost): Upload returns it at once, the InsertBlob or
\* IncrementBlobRef before it having been executed on its own.  (The count
\* a row can reach through failed calls is capped to keep the model finite.)
UploadInsertFileFails(p) ==
    /\ pc[p] = "InsertFile"
    /\ blob[p].ref_count <= MaxFiles
    /\ Return(p, RetErr("context canceled"))
    /\ UNCHANGED <<db, store, now, aux>>

\* The caller has taken the returned value and the request is over.
Done(p) ==
    /\ pc[p] = "returned"
    /\ pc' = [pc EXCEPT ![p] = "idle"]
    /\ ret' = [ret EXCEPT ![p] = NoRet]
    /\ UNCHANGED <<db, store, now, aux, req, locals>>

\* ---------------------------------------------------- specifications
Next == \E p \in Procs : Upload(p) \/ DeleteFile(p) \/ Done(p)

\* Requests of any owners, their steps interleaved in any order.
Spec == Init /\ [][Next]_vars

\* The same requests executed one at a time: a request runs only while no
\* other request is in progress or unanswered.
NextSeq ==
    \E p \in Procs :
        /\ \A q \in Procs \ {p} : pc[q] = "idle"
        /\ (Upload(p) \/ DeleteFile(p) \/ Done(p))

SpecSeq == Init /\ [][NextSeq]_vars

\* The same, the Service constructed with any upload ceiling.
SpecCeiling == InitCeiling /\ [][NextSeq]_vars

\* Uploads of one payload by one owner, deletes, shares, revocations,
\* listings, downloads by token and by file id and StorageStats, executed
\* one request at a time while the clock runs.
NextShare ==
    \/ \E p \in Procs :
        /\ \A q \in Procs \ {p} : pc[q] = "idle"
        /\ \/ /\ Cardinality(DOMAIN files) < MaxShared
              /\ UploadStorageUsage(p, "B", <<"c1">>)
           \/ UploadGetBlobByHash(p)
           \/ UploadStorageUpload(p)
           \/ UploadInsertBlob(p)
           \/ UploadIncrementBlobRef(p)
           \/ UploadInsertFile(p)
           \/ DeleteFile(p)
           \/ \E f \in 1 .. MaxShared, v \in Visibilities, t \in Tokens, e \in Expiries :
                ShareFile(p, f, v, t, e)
           \/ \E f \in 1 .. MaxShared : RevokeShare(p, f)
           \/ ServiceListPublicFiles(p)
           \/ DownloadSharedFile(p)
           \/ DownloadOwnedFile(p)
           \/ StorageStats(p)
           \/ Done(p)
    \/ Tick

SpecShare == Init /\ [][NextShare]_vars

\* Payloads of the runs with StorageStats: c1 and c4 have the same length.
StatsContents == {"c1", "c2", "c4"}

\* Single-file uploads, deletes and StorageStats, one request at a time.
NextStats ==
    \E p \in Procs :
        /\ \A q \in Procs \ {p} : pc[q] = "idle"
        /\ \/ \E o \in Owners, c \in StatsContents : UploadStorageUsage(p, o, <<c>>)
           \/ UploadGetBlobByHash(p)
           \/ UploadStorageUpload(p)
           \/ UploadInsertBlob(p)
           \/ UploadIncrementBlobRef(p)
           \/ UploadInsertFile(p)
           \/ DeleteFile(p)
           \/ StorageStats(p)
           \/ Done(p)

SpecStats == Init /\ [][NextStats]_vars

\* Single-file uploads by owner B, deletes and StorageStats of two clients,
\* their statements interleaved: each statement is a transaction of its own
\* on the pool, so another request's statements can commit between the two
\* queries of StorageUsage.
NextStatsRace ==
    \E p \in Procs :
        \/ \E c \in StatsContents : UploadStorageUsage(p, "B", <<c>>)
        \/ UploadGetBlobByHash(p)
        \/ UploadStorageUpload(p)
        \/ UploadInsertBlob(p)
        \/ UploadIncrementBlobRef(p)
        \/ UploadInsertFile(p)
        \/ DeleteFile(p)
        \/ StorageStats(p)
        \/ Done(p)

SpecStatsRace == Init /\ [][NextStatsRace]_vars

\* Uploads, deletes and downloads by the owner, one request at a time, in
\* which the write to the bucket, the decrement of the count and the
\* increment of the download counter can fail.
NextFault ==
    \E p \in Procs :
        /\ \A q \in Procs \ {p} : pc[q] = "idle"
        /\ \/ Upload(p)
           \/ UploadStorageUploadFails(p)
           \/ DeleteFile(p)
           \/ DeleteDecrementBlobRefFails(p)
           \/ DownloadOwnedFile(p)
           \/ DownloadIncrementDownloadFails(p)
           \/ Done(p)

SpecFault == Init /\ [][NextFault]_vars

\* Uploads and deletes, one request at a time, in which the insert of the
\* File row can fail.
NextInsertFault ==
    \E p \in Procs :
        /\ \A q \in Procs \ {p} : pc[q] = "idle"
        /\ \/ Upload(p)
           \/ UploadInsertFileFails(p)
           \/ DeleteFile(p)
           \/ Done(p)

SpecInsertFault == Init /\ [][NextInsertFault]_vars

\* Uploads of one payload by one owner, deletes, shares, revocations and
\* public downloads by file id, one request at a time while the clock
\* runs.
NextPublic ==
    \/ \E p \in Procs :
        /\ \A q \in Procs \ {p} : pc[q] = "idle"
        /\ \/ /\ Cardinality(DOMAIN files) < MaxShared
              /\ UploadStorageUsage(p, "B", <<"c1">>)
           \/ UploadGetBlobByHash(p)
           \/ UploadStorageUpload(p)
           \/ UploadInsertBlob(p)
           \/ UploadIncrementBlobRef(p)
           \/ UploadInsertFile(p)
           \/ DeleteFile(p)
           \/ \E f \in 1 .. MaxShared, v \in Visibilities, t \in Tokens, e \in Expiries :
                ShareFile(p, f, v, t, e)
           \/ \E f \in 1 .. MaxShared : RevokeShare(p, f)
           \/ handlePublicFileDownload(p)
           \/ Done(p)
    \/ Tick

SpecPublic == Init /\ [][NextPublic]_vars

\* ------------------------------------------------------------- claims
\* No request is in progress.
Quiescent == \A p \in Procs : pc[p] \in {"idle", "returned"}

\* No DeleteFile has soft-deleted a file so far.
NoDeletes == \A f \in DOMAIN files : ~files[f].is_deleted

\* Rows of files (live ones, all of them) that point at a blob row.
LiveRefs(b) == {f \in LiveFiles : files[f].blob_id = b}
AllRefs(b)  == {f \in DOMAIN files : files[f].blob_id = b}

\* Rows of file_blobs with a given digest.
BlobRows(hash) == {b \in DOMAIN file_blobs : file_blobs[b].sha256 = hash}

Digests == {Sha256Hex(c) : c \in Contents}

\* C1: whenever no request is in progress, every Blob row's ref_count
\* equals the number of non-deleted File rows that reference the blob.
C1_RefCountEqualsLiveFiles ==
    Quiescent =>
        \A b \in DOMAIN file_blobs :
            file_blobs[b].ref_count = Cardinality(LiveRefs(b))

\* An Upload item completes: its File row is inserted.
ItemDone(p) ==
    /\ pc[p] = "InsertFile"
    /\ pc'[p] # "InsertFile"
    /\ DOMAIN files' # DOMAIN files

\* File rows that hold the content with this digest.
FilesOfDigest(hash) ==
    {f \in DOMAIN files :
        /\ files[f].blob_id \in DOMAIN file_blobs
        /\ file_blobs[files[f].blob_id].sha256 = hash}

\* C2: with requests executed one after the other, the File row of every
\* Upload item carries the Blob id of the earlier File rows of the same
\* content, and as long as nothing was deleted the Blob's ref_count after
\* the k-th upload of a content is k (1 after the first, 2 after the
\* second).
C2_DedupIdentity ==
    [][\A p \in Procs :
          ItemDone(p) =>
              LET new   == NewId(files)
                  prior == FilesOfDigest(Hash(p))
              IN  /\ new \in DOMAIN files'
                  /\ files'[new].blob_id \in DOMAIN file_blobs'
                  /\ file_blobs'[files'[new].blob_id].sha256 = Hash(p)
                  /\ \A f \in prior : files'[new].blob_id = files[f].blob_id
                  /\ NoDeletes =>
                        file_blobs'[files'[new].blob_id].ref_count
                            = Cardinality(prior) + 1]_vars

\* Two owners hold a file each of the same content, on one Blob of count 2.
C2_Witness ==
    \E f, g \in DOMAIN files :
        /\ files[f].owner_id # files[g].owner_id
        /\ files[f].blob_id = files[g].blob_id
        /\ NoDeletes /\ Quiescent
        /\ files[f].blob_id \in DOMAIN file_blobs
        /\ file_blobs[files[f].blob_id].ref_count = 2

\* C3: with requests executed one at a time, once every file of a content
\* has been deleted no Blob row and no stored bytes of it are left, and no
\* DeleteFile call has failed.
C3_RoundTripPurges ==
    Quiescent =>
        /\ \A b \in DOMAIN file_blobs : LiveRefs(b) # {}
        /\ \A k \in store :
              \E b \in DOMAIN file_blobs :
                  file_blobs[b].storage_key = k /\ LiveRefs(b) # {}
        /\ \A p \in Procs : ret[p].err # "file_blobs row is still referenced"

\* The last call of p was an Upload that found no Blob row for the digest:
\* it inserted the row itself, or its insert hit the unique constraint.
TookAbsentBranch(p, hash) ==
    /\ pc[p] = "returned"
    /\ \/ /\ ret[p].kind = "ok"
          /\ \E i \in DOMAIN ret[p].results :
                /\ ret[p].results[i].isNew
                /\ ret[p].results[i].blob \in BlobRows(hash)
       \/ /\ ret[p].err = "unique violation"
          /\ ret[p].detail = hash

\* C4: when two Uploads of the same unseen content both took the absent
\* branch (and nothing was deleted), the digest has exactly one Blob row,
\* its ref_count counts both uploads and both File rows exist.
C4_ConcurrentNovelUpload ==
    \A p, q \in Procs : \A hash \in Digests :
        (p # q /\ NoDeletes /\ TookAbsentBranch(p, hash) /\ TookAbsentBranch(q, hash))
            => \E b \in BlobRows(hash) :
                  /\ BlobRows(hash) = {b}
                  /\ file_blobs[b].ref_count >= 2
                  /\ Cardinality(AllRefs(b)) >= 2

\* C5: the uniqueness conflict of the Blob insert is never returned to the
\* caller of Upload.
C5_ConflictNeverSurfaced ==
    \A p \in Procs : ret[p].err # "unique violation"

\* C6: a DeleteFile whose MarkFileDeleted matched no row performs no
\* decrement.
C6_DecrementOnlyAfterMark ==
    [][\A p \in Procs :
          (/\ pc[p] = "DecrementBlobRef"
           /\ pc'[p] # "DecrementBlobRef"
           /\ file_blobs' # file_blobs)
              => markedRow[p] # 0]_vars

\* C7: no Blob row has a negative ref_count.
C7_RefCountNonNegative ==
    \A b \in DOMAIN file_blobs : file_blobs[b].ref_count >= 0

\* Uploads that have incremented (or inserted) the Blob row and have not
\* inserted their File row yet.
InFlightRefs(b) == {p \in Procs : pc[p] = "InsertFile" /\ blob[p].id = b}

\* C8: as long as no delete has taken effect, every Blob's ref_count is
\* the number of File rows on it plus the number of uploads that have
\* taken their reference and not yet inserted their File row: concurrent
\* increments are all counted.
C8_NoLostIncrement ==
    NoDeletes =>
        \A b \in DOMAIN file_blobs :
            file_blobs[b].ref_count
                = Cardinality(AllRefs(b)) + Cardinality(InFlightRefs(b))

\* Two uploads of content whose Blob exists have both incremented it and
\* neither has inserted its File row yet.
C8_Witness ==
    \E p, q \in Procs :
        /\ p # q
        /\ pc[p] = "InsertFile" /\ pc[q] = "InsertFile"
        /\ ~isNew[p] /\ ~isNew[q]
        /\ blob[p].id = blob[q].id
        /\ blob[p].id \in DOMAIN file_blobs
        /\ file_blobs[blob[p].id].ref_count = 3
        /\ NoDeletes

\* C9: at most one Blob row per content digest.
C9_OneBlobPerDigest ==
    \A b, c \in DOMAIN file_blobs :
        file_blobs[b].sha256 = file_blobs[c].sha256 => b = c

\* Two uploads raced for the row of one digest and the loser's insert was
\* rejected.
C9_Witness ==
    \E p \in Procs :
        /\ ret[p].err = "unique violation"
        /\ Cardinality(BlobRows(ret[p].detail)) = 1

\* The quota check of a single-file Upload whose payload is within the
\* ceiling, taken while the owner's usage is what the call read at its
\* start (no other request of the owner has changed it).
SingleFileQuotaCheck(p) ==
    /\ pc[p] = "GetBlobByHash"
    /\ pc'[p] # "GetBlobByHash"
    /\ Len(req[p].inputs) = 1
    /\ ~ExceedsMaxUpload(Size(p))
    /\ \A q \in Procs \ {p} : req[q].op = "none" \/ req[q].owner # req[p].owner
    /\ originalUsage[p] = StorageUsageOriginal(req[p].owner)

\* C10: a single-file Upload of size S by an owner with quota Q and usage U
\* is accepted iff Q <= 0 or U + S <= Q, and a rejected one changes neither
\* the catalog nor the store (nor, before its check, did the call).
C10_QuotaEnforcement ==
    [][\A p \in Procs :
          /\ SingleFileQuotaCheck(p) =>
                LET Q == QuotaBytes(req[p].owner)
                    U == StorageUsageOriginal(req[p].owner)
                    S == Size(p)
                    accepted == pc'[p] \in {"storage.Upload", "IncrementBlobRef"}
                    rejected == pc'[p] = "returned" /\ ret'[p].err = "storage quota exceeded"
                IN  /\ accepted <=> (Q <= 0 \/ U + S <= Q)
                    /\ rejected <=> ~accepted
                    /\ rejected => UNCHANGED <<db, store>>
          /\ (pc[p] = "idle" /\ pc'[p] = "GetBlobByHash") => UNCHANGED <<db, store>>
      ]_vars

\* Owner A, at the quota exactly (the boundary upload was accepted), has
\* had a further upload rejected.
C10_Witness ==
    /\ StorageUsageOriginal("A") = QuotaBytes("A")
    /\ \E p \in Procs : ret[p].err = "storage quota exceeded"

\* The step of Upload that rejects the item it is at for its size or for
\* the owner's quota.
RejectsItem(p) ==
    /\ pc[p] = "GetBlobByHash"
    /\ <<pc'[p], idx'[p]>> # <<pc[p], idx[p]>>
    /\ \/ ExceedsMaxUpload(Size(p))
       \/ QuotaExceeded(QuotaBytes(req[p].owner), originalUsage[p], Size(p))

\* C11: a ceiling or quota rejection concerns the rejected item only: the
\* File rows of the items before it stay and those items are reported to
\* the caller, and the loop goes on to the items after it.
C11_PerItemRejection ==
    [][\A p \in Procs :
          RejectsItem(p) =>
              /\ files' = files
              /\ IF idx[p] < Len(req[p].inputs)
                 THEN /\ pc'[p] = "GetBlobByHash"
                      /\ idx'[p] = idx[p] + 1
                      /\ results'[p] = results[p]
                 ELSE /\ pc'[p] = "returned"
                      /\ ret'[p].results = results[p]]_vars

\* p takes a step of a DeleteFile call that has read its file.
DeleteStep(p) ==
    /\ pc[p] \in {"MarkFileDeleted", "DecrementBlobRef", "DeleteBlob", "DeleteShare"}
    /\ pc'[p] # pc[p]

\* Live files other than f that reference blob row b.
OtherLiveRefs(b, f) == LiveRefs(b) \ {f}

\* File g of catalog <<fs, bs>> can be downloaded by its owner from store
\* st: the row is live, its Blob row exists and the bytes are at its key.
Downloadable(fs, bs, st, g) ==
    /\ g \in DOMAIN fs
    /\ ~fs[g].is_deleted
    /\ fs[g].blob_id \in DOMAIN bs
    /\ bs[fs[g].blob_id].storage_key \in st

\* C12: while another live File references the Blob of the file being
\* deleted, the decrement of DeleteFile lowers that Blob's ref_count by
\* exactly 1 and touches no other row, no other step of the call changes
\* the Blob catalog, and the Blob row and its bytes stay, so that the other
\* files remain downloadable.
C12_SharedBlobSurvivesDelete ==
    [][\A p \in Procs :
          LET b == fileWithBlob[p].blob
              others == OtherLiveRefs(b, req[p].fileID)
          IN  (DeleteStep(p) /\ others # {}) =>
                  /\ b \in DOMAIN file_blobs /\ b \in DOMAIN file_blobs'
                  /\ IF pc[p] = "DecrementBlobRef"
                     THEN /\ file_blobs'[b].ref_count = file_blobs[b].ref_count - 1
                          /\ \A c \in DOMAIN file_blobs \ {b} :
                                file_blobs'[c] = file_blobs[c]
                     ELSE file_blobs' = file_blobs
                  /\ store' = store
                  /\ \A g \in others : Downloadable(files', file_blobs', store', g)]_vars

\* Owner A's DeleteFile has returned its file, and owner B's file of the
\* same content is live on the Blob, whose count went from 2 to 1.
C12_Witness ==
    \E p \in Procs : \E g \in LiveFiles :
        /\ pc[p] = "returned" /\ ret[p].kind = "ok"
        /\ ret[p].file \in DOMAIN files
        /\ files[ret[p].file].is_deleted
        /\ files[ret[p].file].owner_id = "A" /\ files[g].owner_id = "B"
        /\ files[g].blob_id = files[ret[p].file].blob_id
        /\ Cardinality(AllRefs(files[g].blob_id)) = 2
        /\ file_blobs[files[g].blob_id].ref_count = 1
        /\ Downloadable(files, file_blobs, store, g)

\* The share rows of file f.
SharesOf(f) == {s \in shares : s.file_id = f}

\* The share row carries a token that is neither null nor empty.
HasToken(s) == s.token # <<>> /\ s.token # <<"">>

\* The share row's expiry is absent or lies in the future.
InForce(s) == s.expires_at = <<>> \/ now < s.expires_at[1]

\* p's step is a ListPublicFiles call, which returns its listing.
Lists(p) == pc[p] = "idle" /\ pc'[p] = "returned" /\ ret'[p].kind = "list"

Passed(s) == s.expires_at # <<>> /\ s.expires_at[1] < now

Shares(p) == pc[p] = "idle" /\ pc'[p] = "returned" /\ ret'[p].share # <<>>

BlobsOf(o) ==
    {files[f].blob_id : f \in {f \in LiveFiles : files[f].owner_id = o}}

RECURSIVE SumBlobSizes(_)
SumBlobSizes(B) ==
    IF B = {} THEN 0
    ELSE LET b == CHOOSE b \in B : TRUE
         IN  file_blobs[b].size_bytes + SumBlobSizes(B \ {b})

\* C16: StorageStats returns the sum of the sizes of the owner's live files
\* and the sum of the sizes of the distinct Blobs they reference, each Blob
\* counted once.
C16_StorageStats ==
    [][\A p \in Procs :
          (pc[p] = "StorageUsage.dedup" /\ pc'[p] = "returned") =>
              ret'[p].usage =
                  <<StorageUsageOriginal(req[p].owner),
                    SumBlobSizes(BlobsOf(req[p].owner))>>]_vars

\* C17: the storage key is a function of the digest alone: the key
\* recorded in every Blob row, by whichever call and owner and in whatever
\* catalog state it was inserted, is the key derived from the row's digest
\* now; bytes lie at that key and at derived keys only; and the key an
\* Upload derives for its insert is the key it wrote the bytes to one
\* statement earlier.
C17_KeyIsFunctionOfDigest ==
    /\ \A b \in DOMAIN file_blobs :
          /\ file_blobs[b].storage_key = buildStorageKey(file_blobs[b].sha256)
          /\ file_blobs[b].storage_key \in store
    /\ store \subseteq {buildStorageKey(h) : h \in Digests}
    /\ \A p \in Procs :
          pc[p] = "InsertBlob" => buildStorageKey(Hash(p)) \in store

\* The two owners have stored c1 and c2, whose digests share their first
\* four digits, in different catalog states; each row has its own key.
C17_Witness ==
    \E b, c \in DOMAIN file_blobs : \E f, g \in DOMAIN files :
        /\ file_blobs[b].sha256 = Sha256Hex("c1")
        /\ file_blobs[c].sha256 = Sha256Hex("c2")
        /\ files[f].blob_id = b /\ files[g].blob_id = c
        /\ files[f].owner_id # files[g].owner_id
        /\ file_blobs[b].storage_key # file_blobs[c].storage_key
        /\ store = {file_blobs[b].storage_key, file_blobs[c].storage_key}

\* The sizes of the first n inputs of p's batch.
RECURSIVE SumInputs(_, _)
SumInputs(p, n) ==
    IF n = 0 THEN 0 ELSE DataLen(req[p].inputs[n]) + SumInputs(p, n - 1)

\* The sizes of the File rows p's batch has inserted so far; the owner's
\* usage less these is, with no other request running, the usage the batch
\* found when it started.
SumAccepted(p) == SumSizes({results[p][i].file : i \in DOMAIN results[p]})

\* p's step is the quota check of an item that is within the ceiling.
QuotaCheck(p) ==
    /\ pc[p] = "GetBlobByHash"
    /\ pc'[p] # "GetBlobByHash"
    /\ ~ExceedsMaxUpload(Size(p))

\* C18: with requests executed one at a time, an Upload reads the owner's
\* usage when it starts and never again; an item that has been stored,
\* deduplicated or not, advances the running total by its size; so at the
\* check of the k-th item the running total is the usage read at the start
\* plus the sizes of the k-1 items before it, which is the owner's actual
\* usage, and the item is accepted iff Q <= 0 or that total + S <= Q.
C18_BatchRunningUsage ==
    [][\A p \in Procs :
          /\ (pc[p] = "idle" /\ pc'[p] = "GetBlobByHash")
                => originalUsage'[p] = StorageUsageOriginal(req'[p].owner)
          /\ (pc[p] = "InsertFile" /\ pc'[p] = "GetBlobByHash")
                => originalUsage'[p] = originalUsage[p] + Size(p)
          /\ (req[p].op = "upload" /\ req'[p].op = "upload" /\ pc[p] # "InsertFile")
                => originalUsage'[p] = originalUsage[p]
          /\ QuotaCheck(p) =>
                LET Q == QuotaBytes(req[p].owner)
                    U == StorageUsageOriginal(req[p].owner)
                    S == Size(p)
                    accepted == pc'[p] \in {"storage.Upload", "IncrementBlobRef"}
                    before == SumInputs(p, idx[p] - 1)
                    snapshot == U - SumAccepted(p)
                IN  /\ Len(results[p]) = idx[p] - 1
                    /\ SumAccepted(p) = before
                    /\ originalUsage[p] = snapshot + before
                    /\ accepted <=> (Q <= 0 \/ snapshot + before + S <= Q)
                    /\ ~accepted =>
                          /\ pc'[p] = "returned"
                          /\ ret'[p].err = "storage quota exceeded"]_vars

\* Owner A (quota 3) is at the check of the second item of the batch
\* <<c2, c2>>; the first item was deduplicated against a Blob that was
\* there and the running total stands at its 2 bytes.
C18_Witness ==
    \E p \in Procs :
        /\ pc[p] = "GetBlobByHash" /\ idx[p] = 2
        /\ req[p].owner = "A" /\ req[p].inputs = <<"c2", "c2">>
        /\ ~results[p][1].isNew
        /\ originalUsage[p] = 2
        /\ StorageUsageOriginal("A") = 2

\* C19: the quota check of an Upload is decided by the call's own running
\* total alone: files another request of the owner has committed since the
\* call read the usage do not enter it (no step of another request changes
\* the running total), so the check passes iff Q <= 0 or total + S <= Q
\* even where the owner's actual usage + S is above Q.
C19_QuotaNotLinearized ==
    [][\A p \in Procs :
          /\ QuotaCheck(p) =>
                LET Q == QuotaBytes(req[p].owner)
                    accepted == pc'[p] \in {"storage.Upload", "IncrementBlobRef"}
                IN  accepted <=> (Q <= 0 \/ originalUsage[p] + Size(p) <= Q)
          /\ (req[p].op = "upload" /\ pc'[p] = pc[p] /\ idx'[p] = idx[p])
                => originalUsage'[p] = originalUsage[p]]_vars

\* Two Uploads of owner A (quota 3) have both returned their results and
\* A's live files add up to more than the quota.
C19_Witness ==
    \E p, q \in Procs :
        /\ p # q
        /\ pc[p] = "returned" /\ pc[q] = "returned"
        /\ ret[p].kind = "ok" /\ ret[q].kind = "ok"
        /\ ret[p].results # <<>> /\ ret[q].results # <<>>
        /\ files[ret[p].results[1].file].owner_id = "A"
        /\ files[ret[q].results[1].file].owner_id = "A"
        /\ NoDeletes
        /\ StorageUsageOriginal("A") > QuotaBytes("A")

\* Another DeleteFile, of a different file on the same Blob, is under way
\* next to p's: it has taken its decrement, seen a count above zero and not
\* returned yet.
SiblingDelete(p) ==
    \E q \in Procs \ {p} :
        /\ req[q].op = "delete"
        /\ req[q].fileID # req[p].fileID
        /\ fileWithBlob[q].blob = fileWithBlob[p].blob
        /\ pc[q] = "DeleteShare"

\* C20: of the concurrent DeleteFile calls that delete the files of one
\* Blob, one file each, the call whose decrement returned 0 purges the
\* Blob: its next step removes the Blob row and the bytes and the call
\* goes on to return its file.
C20_LastDeleterPurges ==
    [][\A p \in Procs :
          LET b == fileWithBlob[p].blob
          IN  (/\ pc[p] = "DeleteBlob"
               /\ pc'[p] # "DeleteBlob"
               /\ SiblingDelete(p)
               /\ LiveRefs(b) = {}
               /\ file_blobs[b].ref_count = 0)
                  => /\ b \notin DOMAIN file_blobs'
                     /\ fileWithBlob[p].storage_key \notin store'
                     /\ pc'[p] = "DeleteShare"]_vars

\* The step in which DeleteFile runs its purge (DeleteBlob, then
\* storage.Delete), and the step that enters it.
PurgeStep(p) == pc[p] = "DeleteBlob" /\ pc'[p] # "DeleteBlob"
EntersPurge(p) == pc[p] # "DeleteBlob" /\ pc'[p] = "DeleteBlob"

\* C21: DeleteFile enters the purge only from the decrement, and only when
\* the count the decrement returned is <= 0.  In the purge the Blob row is
\* deleted first: bytes leave the store only in a purge that deleted the
\* row of the Blob they belong to, and a purge whose row deletion is
\* rejected returns the error with the store untouched.  Nothing else
\* removes a Blob row or bytes.
C21_PurgeGuardAndOrder ==
    [][/\ \A p \in Procs :
            /\ EntersPurge(p) =>
                  /\ pc[p] = "DecrementBlobRef"
                  /\ file_blobs'[fileWithBlob[p].blob].ref_count
                        = file_blobs[fileWithBlob[p].blob].ref_count - 1
                  /\ file_blobs'[fileWithBlob[p].blob].ref_count <= 0
            /\ (PurgeStep(p) /\ fileWithBlob[p].blob \in DOMAIN file_blobs') =>
                  /\ store' = store
                  /\ ret'[p].kind = "error"
       /\ \A k \in store \ store' :
            \E p \in Procs :
                /\ PurgeStep(p)
                /\ k = fileWithBlob[p].storage_key
                /\ fileWithBlob[p].blob \in DOMAIN file_blobs
                /\ fileWithBlob[p].blob \notin DOMAIN file_blobs'
       /\ \A b \in DOMAIN file_blobs \ DOMAIN file_blobs' :
            \E p \in Procs : PurgeStep(p) /\ b = fileWithBlob[p].blob
      ]_vars

\* C21 (witness): a DeleteFile whose decrement returned 0 has run the
\* purge; the deletion of the row was rejected and the bytes are in place.
C21_Witness ==
    \E p \in Procs, b \in DOMAIN file_blobs :
        /\ pc[p] = "returned"
        /\ ret[p].err = "file_blobs row is still referenced"
        /\ file_blobs[b].ref_count <= 0
        /\ file_blobs[b].storage_key \in store

\* C23: a DeleteFile call that soft-deleted a file leaves no Share row of
\* that file when it returns, on whichever path it returns.
C23_NoShareAfterDelete ==
    [][\A p \in Procs :
          ( /\ req[p].op = "delete"
            /\ markedRow[p] # 0
            /\ pc[p] # "returned"
            /\ pc'[p] = "returned" )
          => {s \in shares' : s.file_id = markedRow[p]} = {}
      ]_vars

\* C24: a DeleteFile that stops after the soft-delete and before the
\* decrement does not leave a Blob counting more references than it has
\* live Files: whenever no request is in progress, no ref_count exceeds the
\* number of live File rows of its Blob.
C24_MarkAndDecrementTogether ==
    Quiescent =>
        \A b \in DOMAIN file_blobs :
            file_blobs[b].ref_count <= Cardinality(LiveRefs(b))

\* Every File that held the content with this digest has been deleted.
AllDeleted(hash) ==
    /\ FilesOfDigest(hash) # {}
    /\ \A f \in FilesOfDigest(hash) : files[f].is_deleted

\* C25: with requests executed one after the other, an Upload of content
\* whose Files have all been deleted takes the "absent" branch at its
\* lookup (it goes on to write the bytes and to insert a Blob row), and no
\* Upload increments a ref_count that is 0.
C25_NoRevival ==
    [][\A p \in Procs :
          /\ ( /\ pc[p] = "GetBlobByHash"
               /\ pc'[p] \in {"storage.Upload", "IncrementBlobRef"}
               /\ AllDeleted(Hash(p)) )
             => pc'[p] = "storage.Upload"
          /\ ( /\ pc[p] = "IncrementBlobRef"
               /\ pc'[p] = "InsertFile" )
             => file_blobs[blob[p].id].ref_count > 0
      ]_vars

\* p's step is the call of storage.Upload.
WriteStep(p) == pc[p] = "storage.Upload" /\ pc'[p] # "storage.Upload"

\* C26: storage.Upload is called only by an Upload whose lookup found no
\* row of the digest, and a key enters the store only in that step; a key
\* leaves the store only in the purge of a DeleteFile whose Blob counts no
\* reference; every other step (an Upload of content whose Blob exists, a
\* download, ShareFile, RevokeShare, ListPublicFiles, StorageStats, the
\* clock) leaves the store as it is.
C26_StoreFrame ==
    [][/\ \A p \in Procs :
            WriteStep(p) => (req[p].op = "upload" /\ blob[p] = NoBlob)
       /\ \A k \in store' \ store :
            \E p \in Procs : WriteStep(p) /\ k = buildStorageKey(Hash(p))
       /\ \A k \in store \ store' :
            \E p \in Procs :
                /\ req[p].op = "delete"
                /\ PurgeStep(p)
                /\ file_blobs[fileWithBlob[p].blob].ref_count <= 0
                /\ k = fileWithBlob[p].storage_key
       /\ (\A p \in Procs : ~WriteStep(p) /\ ~PurgeStep(p)) => store' = store
      ]_vars

\* C26 (witness): content whose Blob exists was uploaded again and a file
\* was downloaded, and the store holds the one object written at first.
C26_Witness ==
    /\ Cardinality(store) = 1
    /\ \E f \in DOMAIN files : files[f].download_count > 0
    /\ \E p \in Procs :
          /\ pc[p] = "returned"
          /\ ret[p].kind = "ok"
          /\ ret[p].results # <<>>
          /\ ~ret[p].results[1].isNew

\* C27: for novel content the bytes are written before the Blob row is
\* inserted and the File row comes after it: InsertBlob is reached only
\* from a storage.Upload that left the object at the key, a new Blob row
\* names a key that is in the store and a new File row a Blob row that is
\* there; an Upload whose storage.Upload fails returns the error and
\* creates no Blob row and no File row; so every Blob row's key holds
\* bytes.
C27_BytesBeforeRows ==
    [][/\ \A p \in Procs :
            /\ (pc[p] # "InsertBlob" /\ pc'[p] = "InsertBlob") =>
                  /\ pc[p] = "storage.Upload"
                  /\ buildStorageKey(Hash(p)) \in store'
            /\ (pc[p] = "storage.Upload" /\ pc'[p] = "returned") =>
                  /\ ret'[p].kind = "error"
                  /\ file_blobs' = file_blobs
                  /\ files' = files
       /\ \A b \in DOMAIN file_blobs' \ DOMAIN file_blobs :
            /\ file_blobs'[b].storage_key \in store
            /\ \E p \in Procs : pc[p] = "InsertBlob" /\ pc'[p] = "InsertFile"
       /\ \A f \in DOMAIN files' \ DOMAIN files :
            /\ files'[f].blob_id \in DOMAIN file_blobs
            /\ \E p \in Procs : pc[p] = "InsertFile"
       /\ \A b \in DOMAIN file_blobs' : file_blobs'[b].storage_key \in store'
      ]_vars

\* C27 (witness): an Upload of novel content has returned the error of its
\* storage.Upload, after an earlier Upload had stored other content; the
\* catalog holds no row of the digest whose write failed.
C27_Witness ==
    \E p \in Procs :
        /\ pc[p] = "returned"
        /\ ret[p].err = "supabase upload failed"
        /\ DOMAIN file_blobs # {}
        /\ \E c \in Contents : BlobRows(Sha256Hex(c)) = {}

\* The file id names no live File of this owner: no such row, a row of
\* another owner, or a soft-deleted row.
NotOwnedLive(f, o) ==
    \/ f \notin DOMAIN files
    \/ files[f].owner_id # o
    \/ files[f].is_deleted

\* C28: with requests executed one after the other, DeleteFile(f, o) for
\* an id that names no live File of o returns "absent" without an error and
\* leaves File rows, Blob rows with their counts, Shares and the store
\* unchanged, and for a live File of o it goes on to the soft-delete; a
\* decrement is made only by the call that soft-deleted the file, so a
\* second DeleteFile of the same file decrements nothing.
C28_AbsentDeleteIsNoOp ==
    [][/\ \A p \in Procs, o \in Owners, f \in 1 .. MaxFiles :
            DeleteGetFileWithBlob(p, o, f) =>
                IF NotOwnedLive(f, o)
                THEN /\ ret'[p].kind = "absent"
                     /\ ret'[p].err = ""
                     /\ UNCHANGED <<file_blobs, files, shares, store>>
                ELSE pc'[p] = "MarkFileDeleted"
       /\ \A p \in Procs :
            (pc[p] = "DecrementBlobRef" /\ pc'[p] # "DecrementBlobRef") =>
                /\ markedRow[p] = req[p].fileID
                /\ files[req[p].fileID].is_deleted
      ]_vars

\* C28 (witness): a DeleteFile has returned "absent" while a soft-deleted
\* File, a live File of each owner and an unused file id exist.
C28_Witness ==
    \E p \in Procs :
        /\ pc[p] = "returned"
        /\ ret[p].kind = "absent"
        /\ \E f \in DOMAIN files : files[f].is_deleted
        /\ \E f \in LiveFiles : files[f].owner_id = "A"
        /\ \E f \in 1 .. MaxFiles : f \notin DOMAIN files

\* C29: DownloadOwnedFile(f, o) for an id that names no live File of o
\* returns ErrNotFound from its first statement: it never reaches
\* storage.Download and leaves the catalog (the download counters with it)
\* and the store unchanged; for a live File of o it goes on to fetch the
\* bytes of that File, and a call that returns bytes returns those at the
\* key of the Blob of a live File of its owner.
C29_OwnedDownload ==
    [][/\ \A p \in Procs, o \in Owners, f \in 1 .. MaxShared :
            DownloadGetFileWithBlob(p, o, f) =>
                IF NotOwnedLive(f, o)
                THEN /\ pc'[p] = "returned"
                     /\ ret'[p] = RetNotFound
                     /\ UNCHANGED <<file_blobs, files, shares, store>>
                ELSE /\ pc'[p] = "storage.Download"
                     /\ fileWithBlob'[p].file = f
       /\ \A p \in Procs :
            ( /\ req[p].op = "downloadOwned"
              /\ pc[p] # "returned"
              /\ pc'[p] = "returned"
              /\ ret'[p].kind = "ok" )
            => /\ ~NotOwnedLive(req[p].fileID, req[p].owner)
               /\ ret'[p].file = req[p].fileID
               /\ ret'[p].data
                     = file_blobs[files[req[p].fileID].blob_id].storage_key
               /\ ret'[p].data \in store
      ]_vars

\* C29 (witness): with no share in the table, a download has returned the
\* bytes of a File while another File is soft-deleted.
C29_Witness ==
    /\ shares = {}
    /\ \E f \in DOMAIN files : files[f].is_deleted
    /\ \E p \in Procs :
          /\ pc[p] = "returned"
          /\ ret[p].kind = "ok"
          /\ ret[p].data # <<>>
          /\ ret[p].file \in LiveFiles

\* Share row s carries this token, has not expired and targets a File that
\* is not soft-deleted.
Serves(s, token) ==
    /\ s.token = <<token>>
    /\ InForce(s)
    /\ s.file_id \in DOMAIN files
    /\ ~files[s.file_id].is_deleted

PubliclyShared(f) ==
    \E s \in SharesOf(f) : s.visibility = "PUBLIC" /\ HasToken(s)

C32_IncrementBestEffort ==
    [][\A p \in Procs :
          (pc[p] = "IncrementDownload" /\ pc'[p] = "returned") =>
              /\ ret'[p].kind = "ok"
              /\ ret'[p].file = fileWithBlob[p].file
              /\ ret'[p].data = fileWithBlob[p].storage_key
      ]_vars

\* p's step is the head of the Upload loop for one item: the two checks
\* and the lookup.
ChecksItem(p) == pc[p] = "GetBlobByHash" /\ pc'[p] # "GetBlobByHash"

\* C33: whatever ceiling the Service was constructed with, Upload rejects
\* an item for its size exactly when the ceiling is positive and the size
\* of the payload is strictly greater than it (a size equal to the ceiling
\* is not rejected, and with a ceiling <= 0 no size is); the rejection
\* returns an error and leaves the store, the Blob rows with their counts
\* and the File rows as they were.
C33_UploadCeiling ==
    [][\A p \in Procs :
          ChecksItem(p) =>
              LET over == s_maxUploadBytes > 0 /\ Size(p) > s_maxUploadBytes
              IN  /\ (ret'[p].err = "exceeds max upload size") <=> over
                  /\ over => /\ pc'[p] = "returned"
                             /\ ret'[p].kind = "error"
                             /\ UNCHANGED <<file_blobs, files, shares, store>>
      ]_vars

\* C33 (witness): under a ceiling of 2 bytes a payload of 2 bytes was
\* stored and an Upload has returned the rejection of a larger one.
C33_Witness ==
    /\ s_maxUploadBytes = 2
    /\ \E f \in DOMAIN files : files[f].size_bytes_original = 2
    /\ \E p \in Procs :
          /\ pc[p] = "returned"
          /\ ret[p].err = "exceeds max upload size"

-----------------------------------------------------------------------------
(* resolveContentType (service.go 213-224).  A pure function of the type the *)
(* store reported, the File's declared type (a *string: <<>> is nil) and the *)
(* Blob's detected type.  SpecMime draws the three arguments and applies it. *)

MimeTypes == {"text/plain", "image/png", "application/pdf"}
StoreReported == {""} \cup MimeTypes
MimeDeclared == {<<>>, <<"">>} \cup {<<m>> : m \in MimeTypes}
MimeDetected == {""} \cup MimeTypes

resolveContentType_DeclaredFirst(contentType, declared, detected) ==
    IF declared # <<>> /\ declared[1] # "" THEN declared[1]
    ELSE IF contentType # "" THEN contentType
    ELSE IF detected # "" THEN detected
    ELSE "application/octet-stream"

resolveContentType(contentType, declared, detected) ==
    IF contentType # "" THEN contentType
    ELSE IF declared # <<>> /\ declared[1] # "" THEN declared[1]
    ELSE IF detected # "" THEN detected
    ELSE "application/octet-stream"

InitMimeArgs ==
    /\ InitVault
    /\ s_maxUploadBytes = maxUploadBytes
    /\ InitNoLimiter
    /\ mimeIn \in [contentType : StoreReported, declared : MimeDeclared,
                   detected : MimeDetected]
    /\ mimeOut = <<>>

ResolveContentType ==
    /\ mimeOut = <<>>
    /\ mimeOut' = <<resolveContentType(mimeIn.contentType, mimeIn.declared,
                                       mimeIn.detected)>>
    /\ UNCHANGED <<db, store, now, pc, req, locals, ret, s_maxUploadBytes,
                   mimeIn, limiter, allowed, burst>>

NextMime == ResolveContentType

SpecMime == InitMimeArgs /\ [][NextMime]_vars

(* The three candidates in priority order, a nil declared type read as empty. *)
MimeCandidates ==
    <<mimeIn.contentType,
      IF mimeIn.declared = <<>> THEN "" ELSE mimeIn.declared[1],
      mimeIn.detected>>

(* C34: for every combination of store-reported, declared and detected type, *)
(* each present or empty, the resolved content type is the first non-empty   *)
(* one in that order, and "application/octet-stream" when all are empty.     *)
C34_ContentTypePriority ==
    mimeOut # <<>> =>
        LET present == {i \in 1..3 : MimeCandidates[i] # ""}
        IN  IF present = {}
            THEN mimeOut[1] = "application/octet-stream"
            ELSE \E i \in present :
                    /\ \A j \in present : i <= j
                    /\ mimeOut[1] = MimeCandidates[i]

(* C34 witness: the store reported a type and the File declares another one; *)
(* the call has returned the store's.                                        *)
C34_Witness ==
    /\ mimeOut = <<"image/png">>
    /\ mimeIn.contentType = "image/png"
    /\ mimeIn.declared = <<"text/plain">>
    /\ mimeIn.detected = "application/pdf"

-----------------------------------------------------------------------------
(* C35: in every reachable state, under any interleaving of the steps of     *)
(* concurrent Upload and DeleteFile calls (a delete of the last reference    *)
(* racing with an upload of the same content included), every non-deleted    *)
(* File references a Blob row that exists and whose bytes are in the store.  *)
C35_LiveFileHasBlobAndBytes ==
    \A f \in LiveFiles : Downloadable(files, file_blobs, store, f)

(* C35 witness: a DeleteFile has taken the last reference of a Blob to 0 and *)
(* stands before its purge, while a concurrent Upload of the same content    *)
(* has meanwhile inserted a live File on that Blob.                          *)
C35_Witness ==
    \E p, q \in Procs :
        /\ p # q
        /\ req[p].op = "delete"
        /\ pc[p] = "DeleteBlob"
        /\ req[q].op = "upload"
        /\ \E f \in LiveFiles : /\ files[f].blob_id = fileWithBlob[p].blob
                                /\ f # req[p].fileID

-----------------------------------------------------------------------------
(* C36: when the insert of the File row fails after Upload has inserted the  *)
(* Blob row or incremented its ref_count, the call returns with that Blob    *)
(* counting no more references than it has live Files.                       *)
C36_FailedInsertReleasesRef ==
    [][\A p \in Procs :
          (UploadInsertFileFails(p) /\ blob[p].id \in DOMAIN file_blobs) =>
              file_blobs'[blob[p].id].ref_count
                  <= Cardinality({f \in DOMAIN files' :
                                     /\ ~files'[f].is_deleted
                                     /\ files'[f].blob_id = blob[p].id})
      ]_vars

-----------------------------------------------------------------------------
(* C37: with the Upload and DeleteFile requests executed one at a time, an   *)
(* owner with a quota Q > 0 who starts at or below it stays at or below it:  *)
(* the sum of the sizes of the owner's non-deleted Files is <= Q in every    *)
(* reachable state.                                                          *)
C37_SequentialUsageWithinQuota ==
    \A o \in Owners :
        QuotaBytes(o) > 0 => StorageUsageOriginal(o) <= QuotaBytes(o)

(* C37 witness: owner A has deleted a File and has then uploaded a batch     *)
(* that was admitted item by item up to the quota exactly.                   *)
C37_Witness ==
    /\ QuotaBytes("A") > 0
    /\ StorageUsageOriginal("A") = QuotaBytes("A")
    /\ \E f \in DOMAIN files : files[f].owner_id = "A" /\ files[f].is_deleted
    /\ \E p \in Procs :
          /\ pc[p] = "returned" /\ Len(ret[p].results) = MaxBatch
          /\ \A i \in 1 .. MaxBatch : files[ret[p].results[i].file].owner_id = "A"

-----------------------------------------------------------------------------
(* C38: every pair (original, dedup) that StorageStats returns satisfies     *)
(* 0 <= dedup <= original, also when uploads or deletes of the same owner    *)
(* commit between the two queries of StorageUsage.                           *)
C38_SavingsNeverNegative ==
    \A p \in Procs :
        ret[p].kind = "usage" =>
            /\ 0 <= ret[p].usage[2]
            /\ ret[p].usage[2] <= ret[p].usage[1]

-----------------------------------------------------------------------------
(* rateLimiter (src/unnamed/part_004, 9-69).  Tokens are float64 in the      *)
(* code; here they are counted in quarters of a token and time in seconds,   *)
(* so that a rate is a number of quarters per second and every quantity of   *)
(* the runs below is exact.                                                  *)

\* One token.
Token == 4

\* capacity < 5
MinCapacity == 5 * Token

\* The rates of the runs, in quarters of a token per second: -1, 0, 0.25,
\* 1.5 and 3 requests per second.
Rates == {-Token, 0, 1, 6, 12}

Keys == {"user:u1", "ip:10.0.0.1"}

Clock == 0 .. MaxClock

\* func newRateLimiter(rate float64) *rateLimiter
newRateLimiter(rate) ==
    IF rate <= 0
    THEN NoLimiter
    ELSE [nil |-> FALSE, rate |-> rate,
          capacity |-> IF rate * 2 < MinCapacity THEN MinCapacity ELSE rate * 2,
          buckets |-> <<>>]

\* (variant of the refill without the cap at capacity)
Refill_NoCap(bucket, t) ==
    LET elapsed == t - bucket.lastRefill
    IN  IF elapsed > 0
        THEN [tokens |-> bucket.tokens + elapsed * limiter.rate, lastRefill |-> t]
        ELSE bucket

\* elapsed := now.Sub(bucket.lastRefill).Seconds()
\* if elapsed > 0 { bucket.tokens += elapsed * l.rate; cap; lastRefill = now }
Refill(bucket, t) ==
    LET elapsed == t - bucket.lastRefill
        tokens  == bucket.tokens + elapsed * limiter.rate
    IN  IF elapsed > 0
        THEN [tokens |-> IF tokens > limiter.capacity THEN limiter.capacity
                         ELSE tokens,
              lastRefill |-> t]
        ELSE bucket

\* The number of calls for the key the limiter has let through in the
\* present run of calls for it bearing the timestamp t (a record of the
\* calls, not a field of the limiter).
Burst(key, t, ok) ==
    LET n == IF key \in DOMAIN burst /\ burst[key].at = t THEN burst[key].n ELSE 0
    IN  (key :> [at |-> t, n |-> IF ok THEN n + 1 ELSE n]) @@ burst

\* func (l *rateLimiter) Allow(key string, now time.Time) bool, the whole
\* call under l.mu.
Allow(key, t) ==
    /\ IF limiter.nil
       THEN /\ allowed' = <<TRUE>>
            /\ UNCHANGED <<limiter, burst>>
       ELSE IF key \notin DOMAIN limiter.buckets
       THEN /\ limiter' = [limiter EXCEPT !.buckets =
                             (key :> [tokens |-> limiter.capacity - Token,
                                      lastRefill |-> t]) @@ @]
            /\ allowed' = <<TRUE>>
            /\ burst' = Burst(key, t, TRUE)
       ELSE LET bucket == Refill(limiter.buckets[key], t)
            IN  IF bucket.tokens < Token
                THEN /\ limiter' = [limiter EXCEPT !.buckets[key] = bucket]
                     /\ allowed' = <<FALSE>>
                     /\ burst' = Burst(key, t, FALSE)
                ELSE /\ limiter' = [limiter EXCEPT !.buckets[key] =
                                      [bucket EXCEPT !.tokens = @ - Token]]
                     /\ allowed' = <<TRUE>>
                     /\ burst' = Burst(key, t, TRUE)
    /\ UNCHANGED <<db, store, now, pc, req, locals, ret, s_maxUploadBytes,
                   mimeIn, mimeOut>>

\* limiter: newRateLimiter(cfg.RateLimitRPS), no request served yet.
InitLimiter ==
    /\ InitVault
    /\ s_maxUploadBytes = maxUploadBytes
    /\ InitMime
    /\ \E rate \in Rates : limiter = newRateLimiter(rate)
    /\ allowed = <<>>
    /\ burst = NoBurst

NextLimiter == \E key \in Keys, t \in Clock : Allow(key, t)

SpecLimiter == InitLimiter /\ [][NextLimiter]_vars

\* The tokens a call with timestamp t finds in a bucket once the time since
\* the bucket's last refill has been credited.
AvailableAt(bucket, t) ==
    IF t > bucket.lastRefill
    THEN LET credited == bucket.tokens + (t - bucket.lastRefill) * limiter.rate
         IN  IF credited > limiter.capacity THEN limiter.capacity ELSE credited
    ELSE bucket.tokens

============================================================================
